---- MODULE Spec2Model ----
(***************************************************************************)
(* Football streaks tracker (src/app.py): the per-league scraper           *)
(* scrape_league, the per-team result table get_team_results, the streak   *)
(* search find_game_streaks, and the script's main scrape/analyse run.     *)
(*                                                                         *)
(* Texts (cell contents) are sequences of characters, so that strip,       *)
(* split, int() and the lexical comparison of dates are computed.          *)
(* Python indices are kept 0-based; cols[i] is Cell(cols, i).              *)
(***************************************************************************)
EXTENDS Integers, Sequences, FiniteSets, TLC

VARIABLES
    web,              \* league position -> the document its URL serves
    pc,               \* position of the script
    idx,              \* leagues already scraped by the loop
    all_matches,      \* list of non-empty league frames
    raised,           \* exception that escaped scrape_league, or "none"
    df_all,           \* concatenation of all_matches, re-indexed
    selected_league,  \* the league selector's value
    df_filtered,      \* frame given to find_game_streaks
    win_streak,       \* sidebar: winning streak length
    loss_streak,      \* sidebar: losing streak length
    team_results,     \* team -> frame returned by get_team_results
    win_streaks,      \* first list returned by find_game_streaks
    loss_streaks      \* second list returned by find_game_streaks

vars == <<web, pc, idx, all_matches, raised, df_all, selected_league,
          df_filtered, win_streak, loss_streak, team_results,
          win_streaks, loss_streaks>>

-----------------------------------------------------------------------------
(* Bounds of the model *)

NumLeagues == 2
MaxCellLen == 4
MaxRows == 2
MaxMatches == 2
MaxStreak == 3
LongLen == 5

-----------------------------------------------------------------------------
(* Texts *)

EnDash == "endash"
Hyphen == "-"
Space == " "
Digits == {"0", "1", "2", "3", "4", "5", "6", "7", "8", "9"}

\* code point of a character (Python compares str by code point)
Ord(c) ==
    CASE c = " " -> 32
      [] c = "+" -> 43
      [] c = "-" -> 45
      [] c = "0" -> 48
      [] c = "1" -> 49
      [] c = "2" -> 50
      [] c = "3" -> 51
      [] c = "4" -> 52
      [] c = "5" -> 53
      [] c = "6" -> 54
      [] c = "7" -> 55
      [] c = "8" -> 56
      [] c = "9" -> 57
      [] c = "A" -> 65
      [] c = "B" -> 66
      [] c = "C" -> 67
      [] c = "." -> 46
      [] c = "p" -> 112
      [] c = "x" -> 120
      [] c = "endash" -> 8211

DigitVal(c) == Ord(c) - 48

RECURSIVE LStrip(_)
LStrip(s) ==
    IF s = <<>> THEN <<>>
    ELSE IF Head(s) = Space THEN LStrip(Tail(s)) ELSE s

RECURSIVE RStrip(_)
RStrip(s) ==
    IF s = <<>> THEN <<>>
    ELSE IF s[Len(s)] = Space THEN RStrip(SubSeq(s, 1, Len(s) - 1)) ELSE s

\* str.strip() and get_text(strip=True) on a single text node
Strip(s) == RStrip(LStrip(s))

\* c in s
Contains(s, c) == \E i \in 1..Len(s) : s[i] = c

\* s.split(sep) for a one-character separator: every occurrence splits
RECURSIVE SplitFrom(_, _, _, _)
SplitFrom(s, sep, i, cur) ==
    IF i > Len(s) THEN <<cur>>
    ELSE IF s[i] = sep THEN <<cur>> \o SplitFrom(s, sep, i + 1, <<>>)
    ELSE SplitFrom(s, sep, i + 1, Append(cur, s[i]))

Split(s, sep) == SplitFrom(s, sep, 1, <<>>)

AllDigits(s) == s # <<>> /\ \A i \in 1..Len(s) : s[i] \in Digits

\* int(s) succeeds: optional surrounding blanks, optional sign, digits
IsPyInt(s) ==
    LET t == Strip(s)
    IN  /\ t # <<>>
        /\ IF t[1] \in {"+", "-"} THEN AllDigits(Tail(t)) ELSE AllDigits(t)

RECURSIVE DigitsVal(_)
DigitsVal(s) ==
    IF s = <<>> THEN 0
    ELSE DigitsVal(SubSeq(s, 1, Len(s) - 1)) * 10 + DigitVal(s[Len(s)])

\* int(s) where it succeeds
PyInt(s) ==
    LET t == Strip(s)
    IN  IF t[1] = "-" THEN 0 - DigitsVal(Tail(t))
        ELSE IF t[1] = "+" THEN DigitsVal(Tail(t))
        ELSE DigitsVal(t)

\* a <= b as Python str (lexical by code point)
RECURSIVE StrLeq(_, _)
StrLeq(a, b) ==
    IF a = <<>> THEN TRUE
    ELSE IF b = <<>> THEN FALSE
    ELSE IF Head(a) = Head(b) THEN StrLeq(Tail(a), Tail(b))
    ELSE Ord(Head(a)) < Ord(Head(b))

-----------------------------------------------------------------------------
(* scrape_league *)

\* the league mapping (its first entries, in dict order)
LEAGUES ==
    << [name |-> "Premier League", id |-> 9],
       [name |-> "La Liga", id |-> 12],
       [name |-> "Serie A", id |-> 11],
       [name |-> "Bundesliga", id |-> 20],
       [name |-> "Ligue 1", id |-> 13] >>

\* dict.get on a missing key
NoneIdx == 0 - 1

\* cols[i], Python index
Cell(cols, i) == cols[i + 1]

RECURSIVE MaxOf(_)
MaxOf(s) ==
    IF Len(s) = 1 THEN s[1]
    ELSE LET m == MaxOf(Tail(s)) IN IF s[1] > m THEN s[1] ELSE m

\* col_map.get(name): a later column of the same name overwrites an earlier
ColIdx(headers, name) ==
    IF \E i \in 1..Len(headers) : headers[i] = name
    THEN (CHOOSE i \in 1..Len(headers) :
              /\ headers[i] = name
              /\ \A j \in (i + 1)..Len(headers) : headers[j] # name) - 1
    ELSE NoneIdx

\* [idx for idx, h in enumerate(headers) if h == 'xG']
RECURSIVE XgIndices(_, _)
XgIndices(headers, i) ==
    IF i > Len(headers) THEN <<>>
    ELSE (IF headers[i] = "xG" THEN <<i - 1>> ELSE <<>>)
         \o XgIndices(headers, i + 1)

HomeXgIdx(headers) ==
    LET xs == XgIndices(headers, 1)
    IN  IF Len(xs) >= 1 THEN xs[1] ELSE NoneIdx

AwayXgIdx(headers) ==
    LET xs == XgIndices(headers, 1)
    IN  IF Len(xs) >= 2 THEN xs[2] ELSE NoneIdx

\* [date_idx, home_idx, score_idx, away_idx]
RequiredIdx(headers) ==
    << ColIdx(headers, "Date"), ColIdx(headers, "Home"),
       ColIdx(headers, "Score"), ColIdx(headers, "Away") >>

\* variant: score_idx left out of the check
RequiredMissingNoScore(headers) ==
    \E k \in {1, 2, 4} : RequiredIdx(headers)[k] = NoneIdx

\* None in [date_idx, home_idx, score_idx, away_idx]
RequiredMissing(headers) ==
    \E k \in 1..4 : RequiredIdx(headers)[k] = NoneIdx

\* truthiness of `i and len(cols) > i`: None and 0 are both false
XgText(cols, i) ==
    IF i # NoneIdx /\ i # 0 /\ Len(cols) > i THEN Strip(Cell(cols, i))
    ELSE <<>>

\* variant: only the ASCII hyphen is recognised as a separator
ScorePartsHyphenOnly(score) ==
    IF score = <<>> \/ ~Contains(score, Hyphen) THEN <<>>
    ELSE LET parts == Split(score, Hyphen)
         IN  IF Len(parts) = 2 THEN parts ELSE <<>>

\* the sides of the score, or <<>> when the row is skipped or the
\* unpacking of the split raises ValueError
ScoreParts(score) ==
    IF score = <<>> \/ (~Contains(score, EnDash) /\ ~Contains(score, Hyphen))
    THEN <<>>
    ELSE LET parts == IF Contains(score, EnDash) THEN Split(score, EnDash)
                      ELSE Split(score, Hyphen)
         IN  IF Len(parts) = 2 THEN parts ELSE <<>>

\* one iteration of the row loop: the records it appends (none or one)
RowRecords(league, headers, row) ==
    LET date_idx == ColIdx(headers, "Date")
        home_idx == ColIdx(headers, "Home")
        score_idx == ColIdx(headers, "Score")
        away_idx == ColIdx(headers, "Away")
        cols == row.cols
    IN  IF row.spacer THEN <<>>
        ELSE IF Len(cols) <= MaxOf(RequiredIdx(headers))
        THEN <<>>
        ELSE LET score == Strip(Cell(cols, score_idx))
                 parts == ScoreParts(score)
             IN  IF parts = <<>> THEN <<>>
                 ELSE IF ~IsPyInt(parts[1]) \/ ~IsPyInt(parts[2]) THEN <<>>
                 ELSE << [ league_name |-> league.name,
                           league_id |-> league.id,
                           date |-> Strip(Cell(cols, date_idx)),
                           home_team |-> Strip(Cell(cols, home_idx)),
                           home_xg |-> XgText(cols, HomeXgIdx(headers)),
                           away_team |-> Strip(Cell(cols, away_idx)),
                           away_xg |-> XgText(cols, AwayXgIdx(headers)),
                           home_score |-> PyInt(parts[1]),
                           away_score |-> PyInt(parts[2]),
                           score |-> score ] >>

RECURSIVE ScrapeRows(_, _, _)
ScrapeRows(league, headers, rows) ==
    IF rows = <<>> THEN <<>>
    ELSE RowRecords(league, headers, Head(rows))
         \o ScrapeRows(league, headers, Tail(rows))

Returned(df) == [raised |-> "none", df |-> df]
Raised(e) == [raised |-> e, df |-> <<>>]

\* the try block: TRUE when it returns an empty frame
FetchFails(doc) ==
    \/ doc.status # "200"
    \/ ~doc.div
    \/ ~doc.table

\* max(date_idx, home_idx, score_idx, away_idx) of the first data row
\* raises TypeError when one of them is None (it is outside the row's try)
RowLoopRaises(headers, rows) ==
    /\ \E k \in 1..4 : RequiredIdx(headers)[k] = NoneIdx
    /\ \E i \in 1..Len(rows) : ~rows[i].spacer

\* scrape_league(league_name) against the document the URL serves: the
\* frame it returns, or the exception that escapes it
scrape_league(league, doc) ==
    IF FetchFails(doc) THEN Returned(<<>>)
    ELSE IF ~doc.thead THEN Returned(<<>>)
    ELSE IF doc.head_rows = <<>> THEN Raised("IndexError")
    ELSE LET headers == doc.head_rows[Len(doc.head_rows)]
         IN  IF RequiredMissing(headers) THEN Returned(<<>>)
             ELSE IF ~doc.tbody THEN Raised("AttributeError")
             ELSE IF RowLoopRaises(headers, doc.rows) THEN Raised("TypeError")
             ELSE Returned(ScrapeRows(league, headers, doc.rows))

-----------------------------------------------------------------------------
(* get_team_results *)

\* pd.concat(all_matches, ignore_index=True): the rows in order, each with
\* its new index label
RECURSIVE Flatten(_)
Flatten(frames) ==
    IF frames = <<>> THEN <<>> ELSE Head(frames) \o Flatten(Tail(frames))

Reindex(rows) ==
    [i \in 1..Len(rows) |-> rows[i] @@ [index |-> i - 1]]

RECURSIVE Filter(_, _, _)
Filter(df, field, value) ==
    IF df = <<>> THEN <<>>
    ELSE (IF Head(df)[field] = value THEN <<Head(df)>> ELSE <<>>)
         \o Filter(Tail(df), field, value)

HomeGame(m) ==
    [ index |-> m.index, date |-> m.date, opponent |-> m.away_team,
      location |-> "H", team_score |-> m.home_score,
      opp_score |-> m.away_score, team_xg |-> m.home_xg,
      opp_xg |-> m.away_xg, league_name |-> m.league_name,
      league_id |-> m.league_id ]

\* variant: the xG values are not swapped for an away match
AwayGameHomeXg(m) ==
    [ index |-> m.index, date |-> m.date, opponent |-> m.home_team,
      location |-> "A", team_score |-> m.away_score,
      opp_score |-> m.home_score, team_xg |-> m.home_xg,
      opp_xg |-> m.away_xg, league_name |-> m.league_name,
      league_id |-> m.league_id ]

AwayGame(m) ==
    [ index |-> m.index, date |-> m.date, opponent |-> m.home_team,
      location |-> "A", team_score |-> m.away_score,
      opp_score |-> m.home_score, team_xg |-> m.away_xg,
      opp_xg |-> m.home_xg, league_name |-> m.league_name,
      league_id |-> m.league_id ]

\* pd.concat([home_games, away_games])
AllGames(df, team) ==
    LET home_games == Filter(df, "home_team", team)
        away_games == Filter(df, "away_team", team)
    IN  [i \in 1..Len(home_games) |-> HomeGame(home_games[i])]
        \o [i \in 1..Len(away_games) |-> AwayGame(away_games[i])]

\* sort_values('date', ascending=False): the orders a sort may produce,
\* as sequences of positions of `rows`. The default sort kind is not
\* stable, so rows of equal date may come out in any order.
RECURSIVE SortFrom(_, _)
SortFrom(rows, left) ==
    IF left = {} THEN {<<>>}
    ELSE UNION { { <<i>> \o rest : rest \in SortFrom(rows, left \ {i}) } :
                 i \in { k \in left :
                           \A j \in left : StrLeq(rows[j].date, rows[k].date) } }

\* variant: ascending=True
RECURSIVE SortFromAsc(_, _)
SortFromAsc(rows, left) ==
    IF left = {} THEN {<<>>}
    ELSE UNION { { <<i>> \o rest : rest \in SortFromAsc(rows, left \ {i}) } :
                 i \in { k \in left :
                           \A j \in left : StrLeq(rows[k].date, rows[j].date) } }

SortOrdersAsc(rows) == SortFromAsc(rows, 1..Len(rows))

SortOrders(rows) == SortFrom(rows, 1..Len(rows))

\* the lambda of all_games.apply
ResultOf(x) ==
    IF x.team_score > x.opp_score THEN "W"
    ELSE IF x.team_score < x.opp_score THEN "L" ELSE "D"

WithResult(x) == x @@ [result |-> ResultOf(x)]

Permuted(rows, p) == [i \in 1..Len(p) |-> WithResult(rows[p[i]])]

\* the frames get_team_results(df, team_name) may return
get_team_results(df, team) ==
    LET all_games == AllGames(df, team)
    IN  { Permuted(all_games, p) : p \in SortOrders(all_games) }

-----------------------------------------------------------------------------
(* find_game_streaks *)

\* set(df['home_team'].unique()) | set(df['away_team'].unique())
Teams(df) ==
    {df[i].home_team : i \in 1..Len(df)} \cup {df[i].away_team : i \in 1..Len(df)}

Max2(a, b) == IF a > b THEN a ELSE b

\* results.head(n)
HeadRows(results, n) ==
    SubSeq(results, 1, IF n < Len(results) THEN n ELSE Len(results))

\* ''.join(rows['result'].tolist()) == ch * n
JoinedIs(rows, ch, n) ==
    Len(rows) = n /\ \A i \in 1..Len(rows) : rows[i].result = ch

\* variant: the whole frame is joined, not its head
StreakEntryWhole(team, results, ch, n) ==
    IF Len(results) >= n
    THEN LET last == HeadRows(results, n)
         IN  IF JoinedIs(results, ch, n)
             THEN << [ team |-> team,
                       league_name |-> last[1].league_name,
                       league_id |-> last[1].league_id,
                       games |-> last ] >>
             ELSE <<>>
    ELSE <<>>

\* variant: the entry is tagged with the league of the oldest row of the
\* window
StreakEntryOldestLeague(team, results, ch, n) ==
    IF Len(results) >= n
    THEN LET last == HeadRows(results, n)
         IN  IF JoinedIs(last, ch, n)
             THEN << [ team |-> team,
                       league_name |-> last[Len(last)].league_name,
                       league_id |-> last[Len(last)].league_id,
                       games |-> last ] >>
             ELSE <<>>
    ELSE <<>>

\* the streak entries one team appends for one letter and one length
StreakEntry(team, results, ch, n) ==
    IF Len(results) >= n
    THEN LET last == HeadRows(results, n)
         IN  IF JoinedIs(last, ch, n)
             THEN << [ team |-> team,
                       league_name |-> last[1].league_name,
                       league_id |-> last[1].league_id,
                       games |-> last ] >>
             ELSE <<>>
    ELSE <<>>

\* variant: no skip on short history, each check guarded by its own length
TeamStreaksNoSkip(team, results, win_streak_count, loss_streak_count) ==
    [win |-> StreakEntry(team, results, "W", win_streak_count),
     loss |-> StreakEntry(team, results, "L", loss_streak_count)]

\* variant: the loss check reads results.tail(n), the oldest rows
TeamStreaksTailLoss(team, results, win_streak_count, loss_streak_count) ==
    IF Len(results) < Max2(win_streak_count, loss_streak_count)
    THEN [win |-> <<>>, loss |-> <<>>]
    ELSE [win |-> StreakEntry(team, results, "W", win_streak_count),
          loss |-> StreakEntry(team,
                               SubSeq(results,
                                      Len(results) - loss_streak_count + 1,
                                      Len(results)),
                               "L", loss_streak_count)]

\* one iteration of the loop over teams
TeamStreaks(team, results, win_streak_count, loss_streak_count) ==
    IF Len(results) < Max2(win_streak_count, loss_streak_count)
    THEN [win |-> <<>>, loss |-> <<>>]
    ELSE [win |-> StreakEntry(team, results, "W", win_streak_count),
          loss |-> StreakEntry(team, results, "L", loss_streak_count)]

\* find_game_streaks, with the teams taken in the order `order` (a set has
\* no fixed iteration order) and results[t] the frame get_team_results gave
RECURSIVE find_game_streaks(_, _, _, _)
find_game_streaks(order, results, win_streak_count, loss_streak_count) ==
    IF order = <<>> THEN [win |-> <<>>, loss |-> <<>>]
    ELSE LET one == TeamStreaks(Head(order), results[Head(order)],
                                win_streak_count, loss_streak_count)
             rest == find_game_streaks(Tail(order), results,
                                       win_streak_count, loss_streak_count)
         IN  [win |-> one.win \o rest.win, loss |-> one.loss \o rest.loss]

\* the iteration orders of a set of teams
Orders(S) ==
    { o \in [1..Cardinality(S) -> S] :
        \A i, j \in 1..Cardinality(S) : i # j => o[i] # o[j] }

\* one frame per team, each among those get_team_results may return
RECURSIVE ResultsFor(_, _)
ResultsFor(df, T) ==
    IF T = {} THEN {<<>>}
    ELSE LET t == CHOOSE x \in T : TRUE
         IN  { (t :> r) @@ f :
               r \in get_team_results(df, t), f \in ResultsFor(df, T \ {t}) }

ResultChoices(df) == ResultsFor(df, Teams(df))

-----------------------------------------------------------------------------
(* The script: the scrape loop, the league selector, the analysis *)

LeagueNames(df) == {df[i].league_name : i \in 1..Len(df)}

\* one iteration of `for idx, league_name in enumerate(LEAGUES.keys())`
ScrapeLeague ==
    /\ pc = "scrape"
    /\ idx < NumLeagues
    /\ LET df_league == scrape_league(LEAGUES[idx + 1], web[idx + 1])
       IN  IF df_league.raised # "none"
           THEN /\ pc' = "crashed"
                /\ raised' = df_league.raised
                /\ UNCHANGED <<idx, all_matches>>
           ELSE /\ all_matches' = IF df_league.df # <<>>
                                  THEN Append(all_matches, df_league.df)
                                  ELSE all_matches
                /\ idx' = idx + 1
                /\ UNCHANGED <<pc, raised>>
    /\ UNCHANGED <<web, df_all, selected_league, df_filtered, win_streak,
                   loss_streak, team_results, win_streaks, loss_streaks>>

\* after the loop: `if all_matches:` concatenates, else the no-data branch
LoadAll ==
    /\ pc = "scrape"
    /\ idx = NumLeagues
    /\ IF all_matches # <<>>
       THEN /\ df_all' = Reindex(Flatten(all_matches))
            /\ pc' = "select"
       ELSE /\ pc' = "nodata"
            /\ UNCHANGED df_all
    /\ UNCHANGED <<web, idx, all_matches, raised, selected_league,
                   df_filtered, win_streak, loss_streak, team_results,
                   win_streaks, loss_streaks>>

\* the league selector and the filter
SelectLeague ==
    /\ pc = "select"
    /\ \E sel \in {"All Leagues"} \cup LeagueNames(df_all) :
          /\ selected_league' = sel
          /\ df_filtered' = IF sel = "All Leagues" THEN df_all
                            ELSE Filter(df_all, "league_name", sel)
    /\ pc' = "analyze"
    /\ UNCHANGED <<web, idx, all_matches, raised, df_all, win_streak,
                   loss_streak, team_results, win_streaks, loss_streaks>>

\* find_game_streaks(df_filtered, win_streak, loss_streak); the two lengths
\* are the sidebar's number inputs, read here where they are first used
FindStreaks ==
    /\ pc = "analyze"
    /\ \E res \in ResultChoices(df_filtered) :
       \E order \in Orders(Teams(df_filtered)) :
       \E w \in 1..MaxStreak, l \in 1..MaxStreak :
          LET found == find_game_streaks(order, res, w, l)
          IN  /\ win_streak' = w
              /\ loss_streak' = l
              /\ team_results' = res
              /\ win_streaks' = found.win
              /\ loss_streaks' = found.loss
    /\ pc' = "done"
    /\ UNCHANGED <<web, idx, all_matches, raised, df_all, selected_league,
                   df_filtered>>

Next == ScrapeLeague \/ LoadAll \/ SelectLeague \/ FindStreaks

\* the script's state before the loop, for a given web
Start(w) ==
    /\ web = w
    /\ pc = "scrape"
    /\ idx = 0
    /\ all_matches = <<>>
    /\ raised = "none"
    /\ df_all = <<>>
    /\ selected_league = ""
    /\ df_filtered = <<>>
    /\ win_streak = 3
    /\ loss_streak = 3
    /\ team_results = <<>>
    /\ win_streaks = <<>>
    /\ loss_streaks = <<>>

-----------------------------------------------------------------------------
(* Documents *)

\* the schedule table's column names
StdHeaders == <<"Wk", "Date", "Home", "xG", "Score", "xG", "Away">>

Txt1(c) == <<c>>

\* the cell a row holds under column k of `headers`
CellFor(headers, k, v) ==
    CASE headers[k] = "Date" -> v.date
      [] headers[k] = "Home" -> v.home
      [] headers[k] = "Away" -> v.away
      [] headers[k] = "Score" -> v.score
      [] headers[k] = "xG" ->
            IF \E j \in 1..(k - 1) : headers[j] = "xG"
            THEN <<"0", ".", "9">> ELSE <<"1", ".", "2">>
      [] OTHER -> <<"1">>

\* a table row of n cells
MkRow(headers, v, n) ==
    [spacer |-> FALSE, cols |-> [k \in 1..n |-> CellFor(headers, k, v)]]

SpacerRow == [spacer |-> TRUE, cols |-> <<>>]

\* a page with a schedule table
Page(head_rows, rows) ==
    [ status |-> "200", div |-> TRUE, table |-> TRUE, thead |-> TRUE,
      head_rows |-> head_rows, tbody |-> TRUE, rows |-> rows ]

RateLimited == [Page(<<StdHeaders>>, <<>>) EXCEPT !.status = "429"]

\* the web in which only the first league serves `doc`
OnlyFirst(doc) == [k \in 1..NumLeagues |-> IF k = 1 THEN doc ELSE RateLimited]

RECURSIVE SeqsUpTo(_, _)
SeqsUpTo(S, n) ==
    IF n = 0 THEN {<<>>}
    ELSE LET shorter == SeqsUpTo(S, n - 1)
         IN  shorter \cup {Append(s, x) : s \in shorter, x \in S}

\* characters a score cell is drawn from
CellAlphabet == {"0", "2", "3", " ", "+", "-", "p", EnDash}

\* the first league serves one row whose score cell is any short text
ScoreDocs ==
    { Page(<<StdHeaders>>,
           << MkRow(StdHeaders,
                    [date |-> Txt1("1"), home |-> Txt1("A"),
                     away |-> Txt1("B"), score |-> c],
                    Len(StdHeaders)) >>) :
      c \in SeqsUpTo(CellAlphabet, MaxCellLen) }

InitScore == \E d \in ScoreDocs : Start(OnlyFirst(d))

SpecScore == InitScore /\ [][Next]_vars

\* header layouts: the standard one, each with one column dropped, and
\* reordered, xG-less and repeated-column ones
RemoveAt(s, k) == SubSeq(s, 1, k - 1) \o SubSeq(s, k + 1, Len(s))

Layouts ==
    {StdHeaders}
    \cup {RemoveAt(StdHeaders, k) : k \in 1..Len(StdHeaders)}
    \cup { <<"xG", "Date", "Home", "Score", "Away", "xG">>,
           <<"Date", "Home", "Score", "Away">>,
           <<"Date", "Home", "Score", "Away", "Date">> }

ScoreTexts ==
    { <<"2", "-", "2">>, <<"3", EnDash, "0">>, <<"p">>, <<>> }

LayoutRows(h) ==
    {SpacerRow}
    \cup { MkRow(h, [date |-> Txt1("1"), home |-> Txt1("A"),
                     away |-> Txt1("B"), score |-> c], n) :
           c \in ScoreTexts, n \in {1, Len(h)} }

\* the ways a page can be off: the request, the div, the table, the
\* header section, its rows, the body
Variants(page) ==
    { page,
      [page EXCEPT !.head_rows = <<StdHeaders>> \o page.head_rows],
      [page EXCEPT !.status = "error"],
      [page EXCEPT !.status = "429"],
      [page EXCEPT !.status = "500"],
      [page EXCEPT !.div = FALSE],
      [page EXCEPT !.table = FALSE],
      [page EXCEPT !.thead = FALSE],
      [page EXCEPT !.head_rows = <<>>],
      [page EXCEPT !.tbody = FALSE, !.rows = <<>>] }

ScrapeDocs ==
    UNION { UNION { Variants(Page(<<h>>, rows)) :
                    rows \in SeqsUpTo(LayoutRows(h), MaxRows) } :
            h \in Layouts }

InitScrape == \E d \in ScrapeDocs : Start(OnlyFirst(d))

SpecScrape == InitScrape /\ [][Next]_vars

Outcomes == { <<"2", "-", "0">>, <<"0", "-", "2">>, <<"2", "-", "2">> }

\* played matches between two teams, on dates that tie or differ, in any
\* table order; one row names the same team twice
MatchRows ==
    { MkRow(StdHeaders, [date |-> d, home |-> p[1], away |-> p[2], score |-> c],
            Len(StdHeaders)) :
      d \in {Txt1("9"), <<"1", "0">>},
      p \in { <<Txt1("A"), Txt1("B")>>, <<Txt1("B"), Txt1("A")>> },
      c \in Outcomes }
    \cup { MkRow(StdHeaders, [date |-> Txt1("9"), home |-> Txt1("A"),
                              away |-> Txt1("A"), score |-> <<"2", "-", "0">>],
                 Len(StdHeaders)) }

\* a longer run of A and B meeting on successive dates "1", "2", ..., with
\* A always at home or the two taking turns
LongDates == <<"1", "2", "3", "4", "5", "6", "7">>

LongRows ==
    { [k \in 1..LongLen |->
          MkRow(StdHeaders,
                [date |-> Txt1(LongDates[k]),
                 home |-> IF g \/ k % 2 = 1 THEN Txt1("A") ELSE Txt1("B"),
                 away |-> IF g \/ k % 2 = 1 THEN Txt1("B") ELSE Txt1("A"),
                 score |-> f[k]],
                Len(StdHeaders))] :
      f \in [1..LongLen -> Outcomes], g \in BOOLEAN }

AnalyzeDocs ==
    { Page(<<StdHeaders>>, rows) :
      rows \in SeqsUpTo(MatchRows, MaxMatches) \cup LongRows }

InitAnalyze == \E d \in AnalyzeDocs : Start(OnlyFirst(d))

SpecAnalyze == InitAnalyze /\ [][Next]_vars

\* league pages for the whole run: three wins of A, one other match, and
\* the ways that page can be off
GoodRow(d, h, a, c) ==
    MkRow(StdHeaders, [date |-> Txt1(d), home |-> Txt1(h), away |-> Txt1(a),
                       score |-> c], Len(StdHeaders))

AjaxWins ==
    Page(<<StdHeaders>>,
         << GoodRow("3", "A", "B", <<"2", "-", "0">>),
            GoodRow("2", "C", "A", <<"0", "-", "2">>),
            GoodRow("1", "A", "B", <<"3", EnDash, "0">>) >>)

OneMatch == Page(<<StdHeaders>>, <<GoodRow("4", "B", "C", <<"2", "-", "2">>)>>)

NoScoreColumn ==
    LET h == RemoveAt(StdHeaders, ColIdx(StdHeaders, "Score") + 1)
    IN  Page(<<h>>, <<MkRow(h, [date |-> Txt1("4"), home |-> Txt1("B"),
                               away |-> Txt1("C"), score |-> <<>>], Len(h))>>)

MainDocs ==
    {AjaxWins, NoScoreColumn, Page(<<StdHeaders>>, <<>>)} \cup Variants(OneMatch)

InitMain == \E w \in [1..NumLeagues -> MainDocs] : Start(w)

SpecMain == InitMain /\ [][Next]_vars

\* two leagues in which the same two teams meet. In the first A is at home,
\* on every second date; in the second B is at home, on the dates between,
\* or with its most recent match on the day of the first league's
AwayOutcomes == { <<"0", "-", "2">>, <<"2", "-", "0">> }

FirstLeagueRows ==
    UNION { { [j \in 1..n |->
                 GoodRow(LongDates[2 * (MaxMatches - j) + 2], "A", "B", f[j])] :
              f \in [1..n -> Outcomes] } :
            n \in 0..MaxMatches }

SecondLeagueRows ==
    UNION { { [j \in 1..n |->
                 GoodRow(LongDates[IF same_day /\ j = 1 THEN 2 * MaxMatches
                                   ELSE 2 * (MaxMatches - j) + 1],
                         "B", "A", f[j])] :
              f \in [1..n -> AwayOutcomes], same_day \in BOOLEAN } :
            n \in 0..MaxMatches }
    \cup { << GoodRow(LongDates[2 * MaxMatches], "A", "A",
                      <<"2", "-", "0">>) >> }

\* the web in which the first two leagues serve match pages
TwoLeagues(rows1, rows2) ==
    [k \in 1..NumLeagues |->
        IF k = 1 THEN Page(<<StdHeaders>>, rows1)
        ELSE IF k = 2 THEN Page(<<StdHeaders>>, rows2)
        ELSE RateLimited]

InitTeams ==
    \E rows1 \in FirstLeagueRows, rows2 \in SecondLeagueRows :
        Start(TwoLeagues(rows1, rows2))

SpecTeams == InitTeams /\ [][Next]_vars

-----------------------------------------------------------------------------
(* max.py: the three-game tracker *)

\* the record max.py's scrape_league appends for the row app.py's stores as
\* m: one 'league' field holding the league's name, the rest alike
MaxRecord(m) ==
    [ f \in (DOMAIN m \ {"league_name", "league_id"}) \cup {"league"} |->
        IF f = "league" THEN m.league_name ELSE m[f] ]

\* the frame max.py holds for the matches of frame df
MaxFrame(df) == [i \in 1..Len(df) |-> MaxRecord(df[i])]

MaxHomeGame(m) ==
    [ index |-> m.index, date |-> m.date, opponent |-> m.away_team,
      location |-> "H", team_score |-> m.home_score,
      opp_score |-> m.away_score, team_xg |-> m.home_xg,
      opp_xg |-> m.away_xg, league |-> m.league ]

MaxAwayGame(m) ==
    [ index |-> m.index, date |-> m.date, opponent |-> m.home_team,
      location |-> "A", team_score |-> m.away_score,
      opp_score |-> m.home_score, team_xg |-> m.away_xg,
      opp_xg |-> m.home_xg, league |-> m.league ]

MaxAllGames(df, team) ==
    LET home_games == Filter(df, "home_team", team)
        away_games == Filter(df, "away_team", team)
    IN  [i \in 1..Len(home_games) |-> MaxHomeGame(home_games[i])]
        \o [i \in 1..Len(away_games) |-> MaxAwayGame(away_games[i])]

\* the frames max.py's get_team_results(df, team_name) may return
max_get_team_results(df, team) ==
    LET all_games == MaxAllGames(df, team)
    IN  { Permuted(all_games, p) : p \in SortOrders(all_games) }

\* variant: "exactly 3" excludes a longer run of the same result
TeamStreaks3Exactly(team, results) ==
    IF Len(results) < 3 THEN [win |-> <<>>, loss |-> <<>>]
    ELSE LET last_3 == HeadRows(results, 3)
             entry == << [ team |-> team, league |-> last_3[1].league,
                           games |-> last_3 ] >>
             longer(ch) == Len(results) > 3 /\ results[4].result = ch
         IN  IF JoinedIs(last_3, "W", 3) /\ ~longer("W")
             THEN [win |-> entry, loss |-> <<>>]
             ELSE IF JoinedIs(last_3, "L", 3) /\ ~longer("L")
             THEN [win |-> <<>>, loss |-> entry]
             ELSE [win |-> <<>>, loss |-> <<>>]

\* one iteration of the loop over teams of find_3_game_streaks
TeamStreaks3(team, results) ==
    IF Len(results) < 3 THEN [win |-> <<>>, loss |-> <<>>]
    ELSE LET last_3 == HeadRows(results, 3)
             entry == << [ team |-> team, league |-> last_3[1].league,
                           games |-> last_3 ] >>
         IN  IF JoinedIs(last_3, "W", 3)
             THEN [win |-> entry, loss |-> <<>>]
             ELSE IF JoinedIs(last_3, "L", 3)
             THEN [win |-> <<>>, loss |-> entry]
             ELSE [win |-> <<>>, loss |-> <<>>]

\* find_3_game_streaks, with the teams taken in the order `order` and
\* results[t] the frame get_team_results gave
RECURSIVE find_3_game_streaks(_, _)
find_3_game_streaks(order, results) ==
    IF order = <<>> THEN [win |-> <<>>, loss |-> <<>>]
    ELSE LET one == TeamStreaks3(Head(order), results[Head(order)])
             rest == find_3_game_streaks(Tail(order), results)
         IN  [win |-> one.win \o rest.win, loss |-> one.loss \o rest.loss]

-----------------------------------------------------------------------------
(* Properties of scrape_league *)

\* the frame the first league returned, once it has been scraped
FirstFrame == IF all_matches = <<>> THEN <<>> ELSE all_matches[1]

FirstScraped == idx >= 1 \/ pc = "crashed"

\* the score cell of the first league's first row, as served
ScoreCell == web[1].rows[1].cols[ColIdx(StdHeaders, "Score") + 1]

\* C1: every stored record has home_score >= 0 and away_score >= 0 (a row
\* whose score cell does not give two non-negative integers is dropped)
C1_ScoresNonNegative ==
    \A k \in 1..Len(all_matches) : \A i \in 1..Len(all_matches[k]) :
        /\ all_matches[k][i].home_score >= 0
        /\ all_matches[k][i].away_score >= 0

\* the separator the claim gives priority to, the text before its first
\* occurrence and the text after it
SepOf(s) == IF Contains(s, EnDash) THEN EnDash ELSE Hyphen
SepPos(s) == CHOOSE i \in 1..Len(s) :
                 s[i] = SepOf(s) /\ \A j \in 1..(i - 1) : s[j] # SepOf(s)
LeftOf(s) == SubSeq(s, 1, SepPos(s) - 1)
RightOf(s) == SubSeq(s, SepPos(s) + 1, Len(s))
HasSep(s) == Contains(s, EnDash) \/ Contains(s, Hyphen)
SepCount(s) == Cardinality({i \in 1..Len(s) : s[i] = SepOf(s)})

\* C6: the score cell is split on the en-dash if it has one, else on the
\* hyphen, and the trimmed sides are the two scores ("2-2" gives 2 and 2,
\* "3<en-dash>0" gives 3 and 0); an empty cell, one without separator or
\* with a non-numeric side gives no record and no error
C6_ScoreParsing ==
    FirstScraped =>
        LET s == Strip(ScoreCell)
        IN  /\ pc # "crashed"
            /\ (s = <<>> \/ ~HasSep(s)) => FirstFrame = <<>>
            /\ (HasSep(s) /\ (~IsPyInt(LeftOf(s)) \/ ~IsPyInt(RightOf(s))))
                   => FirstFrame = <<>>
            /\ (HasSep(s) /\ SepCount(s) = 1
                          /\ IsPyInt(LeftOf(s)) /\ IsPyInt(RightOf(s)))
                   => Len(FirstFrame) = 1
            /\ FirstFrame # <<>> =>
                   /\ Len(FirstFrame) = 1
                   /\ FirstFrame[1].home_score = PyInt(LeftOf(s))
                   /\ FirstFrame[1].away_score = PyInt(RightOf(s))
            /\ ScoreCell = <<"2", "-", "2">> =>
                   /\ FirstFrame # <<>>
                   /\ FirstFrame[1].home_score = 2
                   /\ FirstFrame[1].away_score = 2
            /\ ScoreCell = <<"3", EnDash, "0">> =>
                   /\ FirstFrame # <<>>
                   /\ FirstFrame[1].home_score = 3
                   /\ FirstFrame[1].away_score = 0
            /\ ScoreCell = <<"p">> => FirstFrame = <<>>

C6_Witness ==
    /\ idx >= 1
    /\ ScoreCell = <<" ", "3", EnDash, "0">>
    /\ FirstFrame # <<>>
    /\ FirstFrame[1].home_score = 3
    /\ FirstFrame[1].away_score = 0

\* the last header row of the first league's page lacks a required column
LastHeaders == web[1].head_rows[Len(web[1].head_rows)]

LacksRequired ==
    \E name \in {"Date", "Home", "Score", "Away"} :
        \A k \in 1..Len(LastHeaders) : LastHeaders[k] # name

Served ==
    web[1].status = "200" /\ web[1].div /\ web[1].table

\* the first league's page is structurally off: no schedule div or table,
\* no header section, no header row, no body, or a required column absent
StructuralMismatch ==
    /\ web[1].status = "200"
    /\ \/ ~web[1].div
       \/ ~web[1].table
       \/ ~web[1].thead
       \/ web[1].head_rows = <<>>
       \/ ~web[1].tbody
       \/ LacksRequired

\* C5: on a structural mismatch scrape_league returns an empty frame and
\* raises nothing
C5_MismatchNeverRaises ==
    (FirstScraped /\ StructuralMismatch) =>
        /\ pc # "crashed"
        /\ raised = "none"
        /\ all_matches = <<>>

\* C7: a page whose header row lacks Date, Home, Score or Away yields an
\* empty frame: no body row gives a record
C7_MissingColumnEmpty ==
    ( /\ FirstScraped
      /\ Served /\ web[1].thead /\ web[1].head_rows # <<>>
      /\ LacksRequired ) =>
        /\ pc # "crashed"
        /\ raised = "none"
        /\ all_matches = <<>>

C7_Witness ==
    /\ idx >= 1
    /\ Served /\ web[1].thead /\ web[1].tbody
    /\ LastHeaders = RemoveAt(StdHeaders, ColIdx(StdHeaders, "Score") + 1)
    /\ \E i \in 1..Len(web[1].rows) :
          /\ ~web[1].rows[i].spacer
          /\ Len(web[1].rows[i].cols) = Len(LastHeaders)
    /\ all_matches = <<>>

-----------------------------------------------------------------------------
(* Properties of get_team_results and find_game_streaks *)

\* the rows of the analysed frame in which team t takes part
Involved(t) ==
    { i \in 1..Len(df_filtered) :
        df_filtered[i].home_team = t \/ df_filtered[i].away_team = t }

\* the positions of t's frame that come from row i of the analysed frame
RowsOf(t, i) ==
    { k \in 1..Len(team_results[t]) :
        team_results[t][k].index = df_filtered[i].index }

\* C2: every match of the team appears exactly once in its frame, tagged H
\* when the team is home_team and A when it is away_team, and the frame has
\* as many rows as there are matches in which the team takes part
C2_ExhaustiveExclusive ==
    pc = "done" =>
        \A t \in DOMAIN team_results :
            /\ Len(team_results[t]) = Cardinality(Involved(t))
            /\ \A i \in Involved(t) :
                  /\ Cardinality(RowsOf(t, i)) = 1
                  /\ \A k \in RowsOf(t, i) :
                        /\ df_filtered[i].home_team = t
                              => team_results[t][k].location = "H"
                        /\ df_filtered[i].away_team = t
                              => team_results[t][k].location = "A"

InList(list, t) == \E k \in 1..Len(list) : list[k].team = t

LongEnough(t) ==
    Len(team_results[t]) >= Max2(win_streak, loss_streak)

\* C3: for a team with at least max(win, loss) results, it is in the win
\* list exactly when its first win_streak rows are all W, whatever the later
\* rows are, with exactly those rows as its games; a D among the rows a
\* check reads keeps the team out of that check's list; likewise for the
\* loss list and the first loss_streak rows
C3_LeadingWindow ==
    pc = "done" =>
        \A t \in DOMAIN team_results :
            LongEnough(t) =>
                LET r == team_results[t]
                IN  /\ InList(win_streaks, t)
                          <=> \A i \in 1..win_streak : r[i].result = "W"
                    /\ InList(loss_streaks, t)
                          <=> \A i \in 1..loss_streak : r[i].result = "L"
                    /\ \A k \in 1..Len(win_streaks) :
                          win_streaks[k].team = t
                              => win_streaks[k].games = SubSeq(r, 1, win_streak)
                    /\ \A k \in 1..Len(loss_streaks) :
                          loss_streaks[k].team = t
                              => loss_streaks[k].games = SubSeq(r, 1, loss_streak)
                    /\ (\E i \in 1..win_streak : r[i].result = "D")
                          => ~InList(win_streaks, t)
                    /\ (\E i \in 1..loss_streak : r[i].result = "D")
                          => ~InList(loss_streaks, t)

ResultLetters(r) == [i \in 1..Len(r) |-> r[i].result]

C3_Witness ==
    /\ pc = "done"
    /\ win_streak = 3
    /\ \E t \in DOMAIN team_results :
          /\ ResultLetters(team_results[t]) = <<"W", "W", "W", "L", "W">>
          /\ InList(win_streaks, t)

\* C4: a team with fewer than max(win, loss) results is in neither list,
\* even when it has enough rows for the shorter check and they all agree
C4_ShortHistory ==
    pc = "done" =>
        \A t \in DOMAIN team_results :
            ~LongEnough(t) =>
                ~InList(win_streaks, t) /\ ~InList(loss_streaks, t)

C4_Witness ==
    /\ pc = "done"
    /\ win_streak = 1
    /\ loss_streak = 3
    /\ \E t \in DOMAIN team_results :
          /\ ResultLetters(team_results[t]) = <<"W", "W">>
          /\ ~InList(win_streaks, t)
          /\ ~InList(loss_streaks, t)

\* a >= b in the lexical order of strings: b is a prefix of a, or a has the
\* greater character where they first differ
LexGeq(a, b) ==
    \/ /\ Len(b) <= Len(a)
       /\ \A k \in 1..Len(b) : a[k] = b[k]
    \/ \E k \in 1..Len(a) :
          /\ k <= Len(b)
          /\ \A j \in 1..(k - 1) : a[j] = b[j]
          /\ Ord(a[k]) > Ord(b[k])

-----------------------------------------------------------------------------
(* Properties of the whole run *)

\* league k's page gives no data: the fetch fails or the table is malformed
YieldsNoData(k) ==
    \/ web[k].status # "200"
    \/ ~web[k].div
    \/ ~web[k].table
    \/ ~web[k].thead
    \/ web[k].head_rows = <<>>
    \/ ~web[k].tbody
    \/ \E name \in {"Date", "Home", "Score", "Away"} :
          \A j \in 1..Len(web[k].head_rows[Len(web[k].head_rows)]) :
              web[k].head_rows[Len(web[k].head_rows)][j] # name

HasRecordsOf(k) ==
    \E f \in 1..Len(all_matches) : \E i \in 1..Len(all_matches[f]) :
        all_matches[f][i].league_name = LEAGUES[k].name

\* C9: a league that yields no data adds no record and does not stop the
\* loop; with three wins of team A from the first league and nothing from
\* the others, the analysis at win length 3 of the merged frame returns one
\* win entry, for A, under the first league's name, and no entry under
\* another league's name
C9_EmptyLeagueIsolated ==
    /\ (pc = "crashed") => ~YieldsNoData(idx + 1)
    /\ \A k \in 1..idx : YieldsNoData(k) => ~HasRecordsOf(k)
    /\ ( /\ pc = "done"
         /\ web[1] = AjaxWins
         /\ \A k \in 2..NumLeagues : YieldsNoData(k)
         /\ selected_league = "All Leagues"
         /\ win_streak = 3 ) =>
            /\ Len(win_streaks) = 1
            /\ win_streaks[1].team = <<"A">>
            /\ win_streaks[1].league_name = LEAGUES[1].name
            /\ \A k \in 1..Len(loss_streaks) :
                  loss_streaks[k].league_name = LEAGUES[1].name

StripIndex(m) == [f \in DOMAIN m \ {"index"} |-> m[f]]

\* C10: the no-data state is entered only when every league failed; when a
\* league returned records, no other league's failure stops the run, and
\* the analysed frame is the concatenation of the non-empty league frames
C10_AggregateFailureOnly ==
    /\ pc = "nodata" => \A k \in 1..NumLeagues : ~HasRecordsOf(k)
    /\ all_matches # <<>> => pc # "crashed"
    /\ pc \in {"select", "analyze", "done"} =>
          /\ idx = NumLeagues
          /\ \A f \in 1..Len(all_matches) : all_matches[f] # <<>>
          /\ [i \in 1..Len(df_all) |-> StripIndex(df_all[i])]
                = Flatten(all_matches)

-----------------------------------------------------------------------------
(* The optional xG columns *)

\* positions (from 1) of the header cells literally named xG, in order
XgPositions == { k \in 1..Len(LastHeaders) : LastHeaders[k] = "xG" }

\* the n-th smallest of a set of positions
NthOf(S, n) ==
    CHOOSE k \in S : Cardinality({j \in S : j < k}) = n - 1

\* the text row `cols` holds under the n-th xG header, empty when there is
\* no such header or the row has no cell there
XgCellOf(cols, n) ==
    IF Cardinality(XgPositions) >= n /\ NthOf(XgPositions, n) <= Len(cols)
    THEN Strip(cols[NthOf(XgPositions, n)])
    ELSE <<>>

\* body rows of the first league's page that reach every required column
FullRows ==
    { i \in 1..Len(web[1].rows) :
        /\ ~web[1].rows[i].spacer
        /\ Len(web[1].rows[i].cols) = Len(LastHeaders) }

\* C11: every record emitted for the first league carries as home_xg the
\* text under the first xG header of its row, whatever that header's index
\* (index 0 included), and as away_xg the text under the second; with fewer
\* than two xG headers the corresponding value is the empty text
C11_XgByHeaderPosition ==
    (FirstScraped /\ pc # "crashed") =>
        \A r \in 1..Len(FirstFrame) :
            \E i \in FullRows :
                /\ FirstFrame[r].home_xg = XgCellOf(web[1].rows[i].cols, 1)
                /\ FirstFrame[r].away_xg = XgCellOf(web[1].rows[i].cols, 2)

-----------------------------------------------------------------------------
(* The win check and the loss check *)

\* frames of up to LongLen rows with every combination of results
LetterFrames ==
    { [i \in 1..Len(s) |->
          [result |-> s[i], league_name |-> <<>>, league_id |-> 0]] :
      s \in SeqsUpTo({"W", "L", "D"}, LongLen) }

\* C12 as stated: the two checks are not mutually exclusive, so that some
\* frame (one computed for a team of the analysed collection, or any frame
\* of up to LongLen results) and some pair of different lengths put one
\* team in both groups
C12_BothGroupsOccur ==
    \E w \in 1..MaxStreak, l \in 1..MaxStreak :
        /\ w # l
        /\ \E r \in LetterFrames
                      \cup {team_results[t] : t \in DOMAIN team_results} :
              LET one == TeamStreaks(<<"A">>, r, w, l)
              IN  one.win # <<>> /\ one.loss # <<>>

\* C12, amended: the two checks are made separately, and a team ends in
\* neither group or in exactly one; it is never in both, whether the two
\* lengths are equal or different, since both windows start at the most
\* recent row
C12_NeverBothGroups ==
    pc = "done" =>
        \A t \in DOMAIN team_results :
            ~(InList(win_streaks, t) /\ InList(loss_streaks, t))

\* with different lengths, one team is in the win group only, another in
\* the loss group only
C12_Witness ==
    /\ pc = "done"
    /\ win_streak # loss_streak
    /\ \E t, u \in DOMAIN team_results :
          /\ InList(win_streaks, t) /\ ~InList(loss_streaks, t)
          /\ InList(loss_streaks, u) /\ ~InList(win_streaks, u)

-----------------------------------------------------------------------------
(* The team's perspective *)

\* the match of the analysed frame that row x of a team's frame comes from
MatchOf(x) ==
    df_filtered[CHOOSE i \in 1..Len(df_filtered) :
                    df_filtered[i].index = x.index]

\* row x shows match m as team t sees it
SeenBy(x, m, t) ==
    /\ x.location = "H" =>
          /\ m.home_team = t
          /\ x.opponent = m.away_team
          /\ x.team_score = m.home_score /\ x.opp_score = m.away_score
          /\ x.team_xg = m.home_xg /\ x.opp_xg = m.away_xg
    /\ x.location = "A" =>
          /\ m.away_team = t
          /\ x.opponent = m.home_team
          /\ x.team_score = m.away_score /\ x.opp_score = m.home_score
          /\ x.team_xg = m.away_xg /\ x.opp_xg = m.home_xg
    /\ x.location \in {"H", "A"}
    /\ x.result = "W" <=> x.team_score > x.opp_score
    /\ x.result = "L" <=> x.team_score < x.opp_score
    /\ x.result = "D" <=> x.team_score = x.opp_score

\* the results of the rows that match x's gives the opponent of x's team
OpponentResults(x) ==
    { team_results[x.opponent][j].result :
      j \in { i \in 1..Len(team_results[x.opponent]) :
                team_results[x.opponent][i].index = x.index } }

Opposite(r) == IF r = "W" THEN "L" ELSE IF r = "L" THEN "W" ELSE "D"

\* C13: each row of a team's frame shows its match from the team's side
\* (home values for a home match, swapped for an away match), with result W,
\* L or D by comparing team_score with opp_score; the two rows a match gives
\* its two distinct participants have results W and L, or are both D
C13_TeamPerspective ==
    pc = "done" =>
        \A t \in DOMAIN team_results :
            \A k \in 1..Len(team_results[t]) :
                LET x == team_results[t][k]
                IN  /\ SeenBy(x, MatchOf(x), t)
                    /\ x.opponent # t =>
                          OpponentResults(x) = {Opposite(x.result)}

\* an away win: the away side's row has the away values and W, the home
\* side's row of the same match has L
C13_Witness ==
    /\ pc = "done"
    /\ \E i \in 1..Len(df_filtered) :
          LET m == df_filtered[i]
          IN  /\ m.home_team # m.away_team
              /\ m.home_score < m.away_score
              /\ m.home_xg # m.away_xg
              /\ \E j \in RowsOf(m.away_team, i) :
                    /\ team_results[m.away_team][j].result = "W"
                    /\ team_results[m.away_team][j].team_xg = m.away_xg
              /\ \E k \in RowsOf(m.home_team, i) :
                    team_results[m.home_team][k].result = "L"

-----------------------------------------------------------------------------
(* app.py at lengths 3 and 3 against max.py *)

\* the columns the team frames of the two programs share
SharedFields ==
    { "index", "date", "opponent", "location", "team_score", "opp_score",
      "team_xg", "opp_xg", "result" }

SharedRows(games) ==
    [i \in 1..Len(games) |-> [f \in SharedFields |-> games[i][f]]]

\* the teams of a group with their rows, on the shared columns
GroupOf(list) ==
    { [team |-> list[k].team, games |-> SharedRows(list[k].games)] :
      k \in 1..Len(list) }

\* the order a sort left the rows in
OrderKey(frame) ==
    [i \in 1..Len(frame) |-> <<frame[i].index, frame[i].location>>]

\* the frames max.py may compute for team t over the analysed matches, the
\* sort leaving tied dates as it left them in app.py's frame
Max3Frames(t) ==
    { f \in max_get_team_results(MaxFrame(df_filtered), t) :
        OrderKey(f) = OrderKey(team_results[t]) }

\* what max.py's find_3_game_streaks returns for the analysed matches
Max3Found ==
    find_3_game_streaks(
        CHOOSE o \in Orders(Teams(MaxFrame(df_filtered))) : TRUE,
        [t \in Teams(MaxFrame(df_filtered)) |->
            CHOOSE f \in Max3Frames(t) : TRUE])

\* team and league name of the entries of two groups
TagsOf(wins, losses, field) ==
    { <<wins[k].team, wins[k][field]>> : k \in 1..Len(wins) }
    \cup { <<losses[k].team, losses[k][field]>> : k \in 1..Len(losses) }

\* C14: with both lengths 3, app.py's find_game_streaks and max.py's
\* find_3_game_streaks, each over its own frame of the same matches, put the
\* same teams in the win group and the same teams in the loss group, each
\* with the same three rows, and tag each entry with the same league name
C14_AgreeAtDefaults ==
    (pc = "done" /\ win_streak = 3 /\ loss_streak = 3) =>
        /\ Teams(MaxFrame(df_filtered)) = DOMAIN team_results
        /\ \A t \in DOMAIN team_results : Max3Frames(t) # {}
        /\ LET found == Max3Found
           IN  /\ GroupOf(win_streaks) = GroupOf(found.win)
               /\ GroupOf(loss_streaks) = GroupOf(found.loss)
               /\ TagsOf(win_streaks, loss_streaks, "league_name")
                     = TagsOf(found.win, found.loss, "league")

\* both groups are inhabited, and the winning run is longer than three
C14_Witness ==
    /\ pc = "done"
    /\ win_streak = 3
    /\ loss_streak = 3
    /\ \E t, u \in DOMAIN team_results :
          /\ InList(win_streaks, t)
          /\ Len(team_results[t]) > 3
          /\ team_results[t][4].result = "W"
          /\ InList(loss_streaks, u)
          /\ Len(Max3Found.win) = 1
          /\ Len(Max3Found.loss) = 1

-----------------------------------------------------------------------------
(* Teams of the merged collection *)

EntriesOf(list, t) == { k \in 1..Len(list) : list[k].team = t }

\* the leagues whose matches the rows of a window come from
LeaguesOf(games) == { games[i].league_name : i \in 1..Len(games) }

\* entry e of a group is tagged with the league of the first row of its
\* window, the row being the team's most recent one
TaggedByFirstRow(e) ==
    /\ e.games # <<>>
    /\ e.games[1] = team_results[e.team][1]
    /\ e.league_name = e.games[1].league_name
    /\ e.league_id = e.games[1].league_id
    /\ e.league_name = MatchOf(e.games[1]).league_name
    /\ e.league_id = MatchOf(e.games[1]).league_id

\* C15: over the merged frame a team is its name: the team's frame holds its
\* matches of every league, each name has at most one entry in the win group
\* and at most one in the loss group, and an entry carries the league_name
\* and league_id of the first row of its window, whatever leagues the other
\* rows come from
C15_TeamsByNameAlone ==
    pc = "done" =>
        /\ \A t \in DOMAIN team_results :
              /\ Cardinality(EntriesOf(win_streaks, t)) <= 1
              /\ Cardinality(EntriesOf(loss_streaks, t)) <= 1
              /\ LeaguesOf(team_results[t])
                    = { df_filtered[i].league_name : i \in Involved(t) }
        /\ \A k \in 1..Len(win_streaks) : TaggedByFirstRow(win_streaks[k])
        /\ \A k \in 1..Len(loss_streaks) : TaggedByFirstRow(loss_streaks[k])

\* a win entry whose window mixes two leagues, tagged with the league of
\* its first row and not with that of its last
C15_Witness ==
    /\ pc = "done"
    /\ \E k \in 1..Len(win_streaks) :
          LET e == win_streaks[k]
          IN  /\ Cardinality(LeaguesOf(e.games)) = 2
              /\ e.league_name = e.games[1].league_name
              /\ e.league_name # e.games[Len(e.games)].league_name

====
